---- MODULE Spec2Model ----
(***************************************************************************)
(* Model of offline/assistant.py: the Assistant client that wraps the      *)
(* native Google Assistant library.  One Assistant object, the native      *)
(* calls it issues through self._lib, the callback the native engine       *)
(* invokes (Assistant.__call__), and the consumer that iterates the event  *)
(* queue returned by start().                                              *)
(*                                                                         *)
(* event.py (Event, IterableEventQueue) and auth_helpers.py                *)
(* (CredentialsRefresher) are imported by assistant.py but are not part of *)
(* the sources at hand; their behaviour is taken from the specification    *)
(* (sections 4.1, 4.2 and 2) and marked as such below.                     *)
(***************************************************************************)
EXTENDS Integers, Sequences, FiniteSets

VARIABLES
    os_name,                \* os.uname()[0]
    lib_isfile,             \* os.path.isfile(lib_path) for this platform
    lib_loads,              \* what loading and binding the file gives:
                            \* "ok" | "OSError" | "AttributeError"
    assistant,              \* "none" | "constructing" | "live" | "starting"
                            \* | "stopping" | "freeing" | "failed"
                            \* | "crashed"
    event_queue,            \* self._event_queue: [made, items, closed]
    lib,                    \* self._lib: "None" | "loaded"
    event_callback,         \* self._event_callback: "None" | "LISTENER(self)"
    inst,                   \* self._inst: 0 when unset, else the handle
                            \* (NullHandle when assistant_new gave NULL)
    credentials_refresher,  \* self._credentials_refresher: "None"
                            \* | "refresher" | "falsy_refresher"
    calls,                  \* calls issued to the native library / refresher
    raised,                 \* exception the last control-thread call raised
    invoked,                \* (event_type, event_data) the engine delivered
    callback_raised,        \* exception that left the last __call__
    stream,                 \* what start() returned to the consumer
    consumed,               \* events the consumer has taken from the stream
    stream_ended            \* the consumer's iteration has terminated

vars == <<os_name, lib_isfile, lib_loads, assistant, event_queue, lib, event_callback,
          inst, credentials_refresher, calls, raised, invoked,
          callback_raised, stream, consumed, stream_ended>>

(***************************************************************************)
(* Bounds of the model.                                                    *)
(***************************************************************************)
MaxCalls == 3
MaxEvents == 2

Handle == 1

\* c_void_p(None): what self._inst holds when assistant_new returned NULL.
NullHandle == 2

OsNames == {"Linux", "Darwin"}

\* cdll.LoadLibrary and the binding of the library's symbols: they succeed,
\* or the file is no loadable library (OSError), or it lacks a symbol of
\* the C interface (AttributeError).
LoadOutcomes == {"ok", "OSError", "AttributeError"}

(***************************************************************************)
(* Event payloads as the native side serialises them: a token sequence.    *)
(* The JSON subset is a flat object with string keys and scalar values.    *)
(***************************************************************************)
P(c) == [t |-> "punct", v |-> c]
S(s) == [t |-> "str", v |-> s]
W(w) == [t |-> "bare", v |-> w]

EventData ==
    { <<>>,
      <<P("{"), S("text"), P(":"), S("what time is it"), P("}")>>,
      <<W("not"), W("json")>> }

EventTypes == {1, 5}

\* Access tokens as sequences of code points.
Tokens == { <<97, 98>>, <<97, 233>>, <<8364>> }

(***************************************************************************)
(* event.py: Event(event_type, event_data).  The payload is parsed into a  *)
(* mapping (a set of <<key, value>> pairs, the last value of a repeated    *)
(* key winning); the empty string and a payload that does not parse both   *)
(* give the empty mapping.                                                 *)
(***************************************************************************)
JsonIsObject(toks) ==
    LET n == Len(toks)
    IN  /\ n >= 2
        /\ toks[1] = P("{")
        /\ toks[n] = P("}")
        /\ \/ n = 2
           \/ /\ (n - 2) % 4 = 3
              /\ \A k \in 1..(n - 2) :
                    LET tk == toks[k + 1]
                    IN  CASE k % 4 = 1 -> tk.t = "str"
                          [] k % 4 = 2 -> tk = P(":")
                          [] k % 4 = 3 -> tk.t \in {"str", "lit"}
                          [] OTHER     -> tk = P(",")

JsonMembers(toks) ==
    LET cnt == (Len(toks) - 1) \div 4
        key(j) == toks[4 * j - 2].v
        val(j) == toks[4 * j].v
    IN  { <<key(j), val(j)>> :
            j \in { i \in 1..cnt : \A l \in (i + 1)..cnt : key(l) # key(i) } }

JsonLoads(toks) ==
    IF JsonIsObject(toks)
    THEN [ok |-> TRUE, value |-> JsonMembers(toks)]
    ELSE [ok |-> FALSE, value |-> {}]

EventOf(event_type, event_data) ==
    [type |-> event_type,
     args |-> IF event_data = <<>> THEN {} ELSE JsonLoads(event_data).value]

(***************************************************************************)
(* event.py: IterableEventQueue.  offer appends at the tail and never      *)
(* blocks; a closed queue rejects the offer, signalling a logic error to   *)
(* the caller and leaving the buffer as it was.  close marks the queue.    *)
(***************************************************************************)
NewQueue == [made |-> TRUE, items |-> <<>>, closed |-> FALSE]

NoQueue == [made |-> FALSE, items |-> <<>>, closed |-> FALSE]

Offer(q, e) ==
    IF q.closed
    THEN [queue |-> q, raised |-> "LogicError"]
    ELSE [queue |-> [q EXCEPT !.items = Append(@, e)], raised |-> "None"]

Close(q) == [q EXCEPT !.closed = TRUE]

(***************************************************************************)
(* The calls the Assistant issues on its collaborators, in issue order.    *)
(***************************************************************************)
NativeCall(op, h, arg) == [op |-> op, h |-> h, arg |-> arg, len |-> 0]

CountOf(c, op) == Cardinality({ i \in 1..Len(c) : c[i].op = op })

Issued(c, op) == \E i \in 1..Len(c) : c[i].op = op

\* Calls issued by the commands, i.e. after the constructor returned.
Commanded(c) ==
    Cardinality({ i \in 1..Len(c) : c[i].op # "assistant_new" })

Freed(c) == Issued(c, "assistant_free")

HandleLive(c) == Issued(c, "assistant_new") /\ ~Freed(c)

\* A call on a handle the engine has already freed, or on the NULL handle,
\* is undefined behaviour: the process either carries on or dies.
AfterNative(c) ==
    IF Freed(c) \/ inst = NullHandle
    THEN assistant' \in {"live", "crashed"}
    ELSE assistant' = assistant

(***************************************************************************)
(* The native engine behind the handle, as the interface table states it:  *)
(* start is one-shot, set_mic_mute is a no-op if not started,              *)
(* start_conversation is a no-op if muted or not started, and              *)
(* stop_conversation ends the active conversation.  A freed handle has no  *)
(* defined behaviour left, so its state no longer changes; a call that     *)
(* does not carry the handle (NULL) reaches no engine.                     *)
(***************************************************************************)
EngineInit ==
    [started |-> FALSE, muted |-> FALSE, conversing |-> FALSE,
     freed |-> FALSE]

EngineStep(e, call) ==
    IF e.freed \/ call.h # Handle THEN e
    ELSE CASE call.op = "assistant_start" ->
                [e EXCEPT !.started = TRUE]
           [] call.op = "assistant_set_mic_mute" ->
                IF e.started THEN [e EXCEPT !.muted = (call.arg = <<1>>)]
                             ELSE e
           [] call.op = "assistant_start_conversation" ->
                IF e.started /\ ~e.muted THEN [e EXCEPT !.conversing = TRUE]
                                         ELSE e
           [] call.op = "assistant_stop_conversation" ->
                [e EXCEPT !.conversing = FALSE]
           [] call.op = "assistant_free" ->
                [e EXCEPT !.freed = TRUE, !.conversing = FALSE]
           [] OTHER -> e

RECURSIVE Engine(_)
Engine(c) ==
    IF c = <<>> THEN EngineInit
    ELSE EngineStep(Engine(SubSeq(c, 1, Len(c) - 1)), c[Len(c)])

\* str.encode('ascii'): the bytes, or a UnicodeEncodeError.
AsciiEncodable(token) == \A i \in 1..Len(token) : token[i] < 128

(***************************************************************************)
(* Initial state: the process before Assistant(credentials) is evaluated.  *)
(***************************************************************************)
Init ==
    /\ os_name \in OsNames
    /\ lib_isfile \in BOOLEAN
    /\ lib_loads \in LoadOutcomes
    /\ assistant = "none"
    /\ event_queue = NoQueue
    /\ lib = "None"
    /\ event_callback = "None"
    /\ inst = 0
    /\ credentials_refresher = "None"
    /\ calls = <<>>
    /\ raised = "None"
    /\ invoked = <<>>
    /\ callback_raised = "None"
    /\ stream = "None"
    /\ consumed = <<>>
    /\ stream_ended = FALSE

\* Variant of the platform test that forgets the isfile() check.
LoadLibOsOnly == os_name = "Linux"

\* Assistant._load_lib: the platform test that guards cdll.LoadLibrary.
LoadLibSupported == os_name = "Linux" /\ lib_isfile

\* Variant of __init__ that leaves the creation of the event queue to a
\* later moment: the handle exists while the queue does not.
AssistantInitLazyQueue ==
    /\ assistant = "none"
    /\ IF ~LoadLibSupported
       THEN /\ raised' = "UnsupportedPlatformError"
            /\ assistant' = "failed"
            /\ UNCHANGED <<lib, event_callback, calls>>
       ELSE IF lib_loads = "OSError"
       THEN /\ raised' = "OSError"
            /\ assistant' = "failed"
            /\ UNCHANGED <<lib, event_callback, calls>>
       ELSE IF lib_loads = "AttributeError"
       THEN /\ raised' = "AttributeError"
            /\ assistant' = "failed"
            /\ lib' = "loaded"
            /\ UNCHANGED <<event_callback, calls>>
       ELSE /\ lib' = "loaded"
            /\ event_callback' = "LISTENER(self)"
            /\ calls' = <<NativeCall("assistant_new", 0, <<>>)>>
            /\ raised' = "None"
            /\ assistant' = "constructing"
    /\ UNCHANGED <<callback_raised, os_name, lib_isfile, lib_loads, event_queue, inst,
                   credentials_refresher, invoked, stream, consumed,
                   stream_ended>>

\* Assistant.__init__ up to the foreign call assistant_new: the queue is
\* made, the library is located, loaded and bound, the callback is wrapped
\* and assistant_new is entered.  While that call runs the engine holds
\* the callback and self._inst is not yet assigned.
AssistantInit ==
    /\ assistant = "none"
    /\ event_queue' = NewQueue
    /\ IF ~LoadLibSupported
       THEN /\ raised' = "UnsupportedPlatformError"
            /\ assistant' = "failed"
            /\ UNCHANGED <<lib, event_callback, calls>>
       ELSE IF lib_loads = "OSError"
       THEN /\ raised' = "OSError"
            /\ assistant' = "failed"
            /\ UNCHANGED <<lib, event_callback, calls>>
       ELSE IF lib_loads = "AttributeError"
       THEN /\ raised' = "AttributeError"
            /\ assistant' = "failed"
            /\ lib' = "loaded"
            /\ UNCHANGED <<event_callback, calls>>
       ELSE /\ lib' = "loaded"
            /\ event_callback' = "LISTENER(self)"
            /\ calls' = <<NativeCall("assistant_new", 0, <<>>)>>
            /\ raised' = "None"
            /\ assistant' = "constructing"
    /\ UNCHANGED <<callback_raised, os_name, lib_isfile, lib_loads, inst,
                   credentials_refresher, invoked, stream, consumed,
                   stream_ended>>

\* Variant of the constructor's tail with the refresher lines uncommented.
AssistantNewReturnsWired ==
    /\ assistant = "constructing"
    /\ inst' \in {Handle, NullHandle}
    /\ credentials_refresher' = "refresher"
    /\ assistant' = "live"
    /\ UNCHANGED <<callback_raised, os_name, lib_isfile, lib_loads, event_queue, lib,
                   event_callback, calls, raised, invoked, stream, consumed,
                   stream_ended>>

\* Assistant.__init__ from the return of assistant_new on: the result, a
\* handle or NULL, is stored in self._inst and the constructor returns; the
\* lines that would create and start a CredentialsRefresher are comments.
AssistantNewReturns ==
    /\ assistant = "constructing"
    /\ inst' \in {Handle, NullHandle}
    /\ credentials_refresher' = "None"
    /\ assistant' = "live"
    /\ UNCHANGED <<callback_raised, os_name, lib_isfile, lib_loads, event_queue, lib,
                   event_callback, calls, raised, invoked, stream, consumed,
                   stream_ended>>

\* bool(self._credentials_refresher), the test of __exit__: None is false,
\* an ordinary object is true, an object whose __bool__ gives False is
\* false.
Truthy(r) == r = "refresher"

\* Assistant.__exit__ up to its first call out of the object.  With a
\* refresher that tests true it enters the refresher's stop(), which
\* waits for the refresher's thread; while it waits the reference is still
\* set and nothing has been released.  Otherwise it goes straight to the
\* foreign call assistant_free, the reference left as it is.
Exit ==
    /\ assistant = "live"
    /\ Commanded(calls) < MaxCalls
    /\ raised' = "None"
    /\ IF Truthy(credentials_refresher)
       THEN /\ calls' = Append(calls, NativeCall("refresher_stop", 0, <<>>))
            /\ assistant' = "stopping"
       ELSE /\ calls' = Append(calls, NativeCall("assistant_free", inst, <<>>))
            /\ AfterNative(calls)
    /\ UNCHANGED <<callback_raised, os_name, lib_isfile, lib_loads,
                   event_queue, lib, event_callback, inst,
                   credentials_refresher, invoked, stream, consumed,
                   stream_ended>>

\* Assistant.__exit__ from the end of the refresher's stop() on: when stop()
\* raised, the exception leaves __exit__ at once; when it returned, the
\* reference is cleared.
ExitStopReturns(stop_raises) ==
    /\ assistant = "stopping"
    /\ IF stop_raises
       THEN /\ raised' = "RefresherStopError"
            /\ assistant' = "live"
            /\ UNCHANGED credentials_refresher
       ELSE /\ credentials_refresher' = "None"
            /\ assistant' = "freeing"
            /\ UNCHANGED raised
    /\ UNCHANGED <<callback_raised, os_name, lib_isfile, lib_loads,
                   event_queue, lib, event_callback, inst, calls, invoked,
                   stream, consumed, stream_ended>>

\* Assistant.__exit__, its last statement after the reference has been
\* cleared: the foreign call assistant_free on self._inst.
ExitFree ==
    /\ assistant = "freeing"
    /\ calls' = Append(calls, NativeCall("assistant_free", inst, <<>>))
    /\ IF Freed(calls) \/ inst = NullHandle
       THEN assistant' \in {"live", "crashed"}
       ELSE assistant' = "live"
    /\ UNCHANGED <<callback_raised, os_name, lib_isfile, lib_loads,
                   event_queue, lib, event_callback, inst,
                   credentials_refresher, raised, invoked, stream, consumed,
                   stream_ended>>

\* Variants of __call__: the event offered twice, offered at the head of
\* the queue, and lost when its payload does not parse.
CallOfferTwice(event_type, event_data) ==
    /\ assistant \in {"constructing", "live", "starting", "stopping",
                      "freeing"}
    /\ Len(invoked) < MaxEvents
    /\ invoked' = Append(invoked, [type |-> event_type, data |-> event_data])
    /\ LET first == Offer(event_queue, EventOf(event_type, event_data))
           second == Offer(first.queue, EventOf(event_type, event_data))
       IN  /\ event_queue' = second.queue
           /\ callback_raised' = second.raised
    /\ UNCHANGED <<os_name, lib_isfile, lib_loads, assistant, lib, event_callback, inst,
                   credentials_refresher, calls, raised, stream, consumed,
                   stream_ended>>

CallOfferAtHead(event_type, event_data) ==
    /\ assistant \in {"constructing", "live", "starting", "stopping",
                      "freeing"}
    /\ Len(invoked) < MaxEvents
    /\ invoked' = Append(invoked, [type |-> event_type, data |-> event_data])
    /\ event_queue' = [event_queue EXCEPT
                         !.items = <<EventOf(event_type, event_data)>> \o @]
    /\ callback_raised' = "None"
    /\ UNCHANGED <<os_name, lib_isfile, lib_loads, assistant, lib, event_callback, inst,
                   credentials_refresher, calls, raised, stream, consumed,
                   stream_ended>>

CallDropUnparsable(event_type, event_data) ==
    /\ assistant \in {"constructing", "live", "starting", "stopping",
                      "freeing"}
    /\ Len(invoked) < MaxEvents
    /\ invoked' = Append(invoked, [type |-> event_type, data |-> event_data])
    /\ LET offered == Offer(event_queue, EventOf(event_type, event_data))
       IN  IF event_data = <<>> \/ JsonLoads(event_data).ok
           THEN /\ event_queue' = offered.queue
                /\ callback_raised' = offered.raised
           ELSE /\ event_queue' = event_queue
                /\ callback_raised' = "None"
    /\ UNCHANGED <<os_name, lib_isfile, lib_loads, assistant, lib, event_callback, inst,
                   credentials_refresher, calls, raised, stream, consumed,
                   stream_ended>>

\* Variant of __call__ that wraps the offer in a try/except and swallows
\* the rejection of a closed queue.
CallSwallowsRejection(event_type, event_data) ==
    /\ assistant \in {"constructing", "live", "starting", "stopping",
                      "freeing"}
    /\ Len(invoked) < MaxEvents
    /\ invoked' = Append(invoked, [type |-> event_type, data |-> event_data])
    /\ event_queue' = Offer(event_queue, EventOf(event_type, event_data)).queue
    /\ callback_raised' = "None"
    /\ UNCHANGED <<os_name, lib_isfile, lib_loads, assistant, lib, event_callback, inst,
                   credentials_refresher, calls, raised, stream, consumed,
                   stream_ended>>

\* Assistant.__call__, invoked by the native engine on its own thread.  The
\* method tests nothing: it runs whenever the object exists, also while
\* assistant_new, assistant_start or the refresher's stop() is still
\* executing and after __exit__.
\* It catches nothing either: what offer raises leaves the method.
Call(event_type, event_data) ==
    /\ assistant \in {"constructing", "live", "starting", "stopping",
                      "freeing"}
    /\ Len(invoked) < MaxEvents
    /\ invoked' = Append(invoked, [type |-> event_type, data |-> event_data])
    /\ LET offered == Offer(event_queue, EventOf(event_type, event_data))
       IN  /\ event_queue' = offered.queue
           /\ callback_raised' = offered.raised
    /\ UNCHANGED <<os_name, lib_isfile, lib_loads, assistant, lib, event_callback, inst,
                   credentials_refresher, calls, raised, stream, consumed,
                   stream_ended>>

\* A command that forwards one native call on self._inst and returns.
Forward(op, arg) ==
    /\ assistant = "live"
    /\ Commanded(calls) < MaxCalls
    /\ calls' = Append(calls, NativeCall(op, inst, arg))
    /\ raised' = "None"
    /\ AfterNative(calls)

\* Assistant.start up to the foreign call assistant_start: the call is
\* entered on self._inst.  While it runs the engine may invoke the callback,
\* and start() has returned nothing yet; on a freed or NULL handle the
\* process may die inside the call, and then start() never returns.
Start ==
    /\ assistant = "live"
    /\ Commanded(calls) < MaxCalls
    /\ calls' = Append(calls, NativeCall("assistant_start", inst, <<>>))
    /\ raised' = "None"
    /\ IF Freed(calls) \/ inst = NullHandle
       THEN assistant' \in {"starting", "crashed"}
       ELSE assistant' = "starting"
    /\ UNCHANGED <<callback_raised, os_name, lib_isfile, lib_loads, event_queue, lib,
                   event_callback, inst, credentials_refresher, invoked,
                   stream, consumed, stream_ended>>

\* Variant of start()'s return that hands out a queue of its own making
\* instead of self._event_queue.
StartReturnsFreshQueue ==
    /\ assistant = "starting"
    /\ stream' = "fresh_queue"
    /\ assistant' = "live"
    /\ UNCHANGED <<callback_raised, os_name, lib_isfile, lib_loads, event_queue, lib,
                   event_callback, inst, credentials_refresher, calls, raised,
                   invoked, consumed, stream_ended>>

\* Assistant.start from the return of assistant_start on: the method
\* returns self._event_queue to its caller.
StartReturns ==
    /\ assistant = "starting"
    /\ stream' = "event_queue"
    /\ assistant' = "live"
    /\ UNCHANGED <<callback_raised, os_name, lib_isfile, lib_loads, event_queue, lib,
                   event_callback, inst, credentials_refresher, calls, raised,
                   invoked, consumed, stream_ended>>

\* Variant of set_mic_mute that starts the engine first when it has not
\* been started, so that the mute takes effect.
SetMicMuteAutoStart(is_muted) ==
    /\ assistant = "live"
    /\ Commanded(calls) < MaxCalls
    /\ calls' = (IF Issued(calls, "assistant_start")
                 THEN calls
                 ELSE Append(calls,
                             NativeCall("assistant_start", inst, <<>>)))
                \o <<NativeCall("assistant_set_mic_mute", inst,
                                <<IF is_muted THEN 1 ELSE 0>>)>>
    /\ raised' = "None"
    /\ AfterNative(calls)
    /\ UNCHANGED <<callback_raised, os_name, lib_isfile, lib_loads, event_queue, lib, event_callback,
                   inst, credentials_refresher, invoked, stream, consumed,
                   stream_ended>>

\* Variant of set_mic_mute that validates: asking for the mute state the
\* engine is already in is rejected instead of forwarded.
SetMicMuteValidating(is_muted) ==
    /\ assistant = "live"
    /\ Commanded(calls) < MaxCalls
    /\ IF Engine(calls).started /\ Engine(calls).muted = is_muted
       THEN /\ raised' = "InvalidState"
            /\ UNCHANGED <<calls, assistant>>
       ELSE /\ calls' = Append(calls,
                   NativeCall("assistant_set_mic_mute", inst,
                              <<IF is_muted THEN 1 ELSE 0>>))
            /\ raised' = "None"
            /\ AfterNative(calls)
    /\ UNCHANGED <<callback_raised, os_name, lib_isfile, lib_loads, event_queue, lib, event_callback,
                   inst, credentials_refresher, invoked, stream, consumed,
                   stream_ended>>

\* Assistant.set_mic_mute
SetMicMute(is_muted) ==
    /\ Forward("assistant_set_mic_mute", <<IF is_muted THEN 1 ELSE 0>>)
    /\ UNCHANGED <<callback_raised, os_name, lib_isfile, lib_loads, event_queue, lib, event_callback,
                   inst, credentials_refresher, invoked, stream, consumed,
                   stream_ended>>

\* Variant of start_conversation that first lifts the mute so that the
\* conversation can begin.
StartConversationUnmutes ==
    /\ assistant = "live"
    /\ Commanded(calls) < MaxCalls
    /\ calls' = calls \o <<NativeCall("assistant_set_mic_mute", inst, <<0>>),
                           NativeCall("assistant_start_conversation", inst,
                                      <<>>)>>
    /\ raised' = "None"
    /\ AfterNative(calls)
    /\ UNCHANGED <<callback_raised, os_name, lib_isfile, lib_loads, event_queue, lib, event_callback,
                   inst, credentials_refresher, invoked, stream, consumed,
                   stream_ended>>

\* Assistant.start_conversation
StartConversation ==
    /\ Forward("assistant_start_conversation", <<>>)
    /\ UNCHANGED <<callback_raised, os_name, lib_isfile, lib_loads, event_queue, lib, event_callback,
                   inst, credentials_refresher, invoked, stream, consumed,
                   stream_ended>>

\* Assistant.stop_conversation
StopConversation ==
    /\ Forward("assistant_stop_conversation", <<>>)
    /\ UNCHANGED <<callback_raised, os_name, lib_isfile, lib_loads, event_queue, lib, event_callback,
                   inst, credentials_refresher, invoked, stream, consumed,
                   stream_ended>>

\* Variant of _set_credentials that encodes with errors='ignore': the
\* characters outside ASCII are dropped and the rest is forwarded.
SetCredentialsIgnoreErrors(token) ==
    /\ assistant = "live"
    /\ Commanded(calls) < MaxCalls
    /\ LET access_token == SelectSeq(token, LAMBDA ch : ch < 128)
       IN  calls' = Append(calls,
                   [op |-> "assistant_set_access_token", h |-> inst,
                    arg |-> access_token, len |-> Len(access_token)])
    /\ raised' = "None"
    /\ AfterNative(calls)
    /\ UNCHANGED <<callback_raised, os_name, lib_isfile, lib_loads, event_queue, lib, event_callback,
                   inst, credentials_refresher, invoked, stream, consumed,
                   stream_ended>>

\* Assistant._set_credentials, the token-update path.
SetCredentials(token) ==
    /\ assistant = "live"
    /\ Commanded(calls) < MaxCalls
    /\ IF ~AsciiEncodable(token)
       THEN /\ raised' = "UnicodeEncodeError"
            /\ UNCHANGED <<calls, assistant>>
       ELSE /\ calls' = Append(calls,
                   [op |-> "assistant_set_access_token", h |-> inst,
                    arg |-> token, len |-> Len(token)])
            /\ raised' = "None"
            /\ AfterNative(calls)
    /\ UNCHANGED <<callback_raised, os_name, lib_isfile, lib_loads, event_queue, lib, event_callback,
                   inst, credentials_refresher, invoked, stream, consumed,
                   stream_ended>>

\* The consumer pulls the next event from the sequence start() returned:
\* it takes the head, ends when the queue is closed and drained, and
\* otherwise blocks.  The holder of the sequence may be a thread other
\* than the one inside a further start() or inside __exit__.
QueueNext ==
    /\ assistant \in {"live", "starting", "stopping", "freeing"}
    /\ stream = "event_queue"
    /\ ~stream_ended
    /\ IF event_queue.items # <<>>
       THEN /\ consumed' = Append(consumed, Head(event_queue.items))
            /\ event_queue' = [event_queue EXCEPT !.items = Tail(@)]
            /\ UNCHANGED stream_ended
       ELSE /\ event_queue.closed
            /\ stream_ended' = TRUE
            /\ UNCHANGED <<consumed, event_queue>>
    /\ UNCHANGED <<callback_raised, os_name, lib_isfile, lib_loads, assistant, lib, event_callback, inst,
                   credentials_refresher, calls, raised, invoked, stream>>

\* The holder of the queue that start() returned closes it.
QueueClose ==
    /\ assistant \in {"live", "starting", "stopping", "freeing"}
    /\ stream = "event_queue"
    /\ ~event_queue.closed
    /\ event_queue' = Close(event_queue)
    /\ UNCHANGED <<callback_raised, os_name, lib_isfile, lib_loads, assistant, lib, event_callback, inst,
                   credentials_refresher, calls, raised, invoked, stream,
                   consumed, stream_ended>>

Commands ==
    \/ Start
    \/ \E m \in BOOLEAN : SetMicMute(m)
    \/ StartConversation
    \/ StopConversation

Callback == \E ty \in EventTypes, d \in EventData : Call(ty, d)

\* The program as shipped.
Next ==
    \/ AssistantInit
    \/ AssistantNewReturns
    \/ Exit
    \/ Commands
    \/ StartReturns
    \/ Callback
    \/ QueueNext

Spec == Init /\ [][Next]_vars

\* The program as shipped, run by an application that may close the queue
\* it obtained from start().
NextClose ==
    \/ Next
    \/ QueueClose

SpecClose == Init /\ [][NextClose]_vars

\* The program as shipped with its token-update path exercised: some
\* caller invokes _set_credentials on the Assistant.
NextToken ==
    \/ Next
    \/ \E tok \in Tokens : SetCredentials(tok)

SpecToken == Init /\ [][NextToken]_vars

\* An application gives the constructed Assistant a running refresher by
\* setting its refresher reference, before it issues any command; the
\* object it sets tests true, as objects do, or false.
AttachRefresher ==
    /\ assistant = "live"
    /\ credentials_refresher = "None"
    /\ Commanded(calls) = 0
    /\ credentials_refresher' \in {"refresher", "falsy_refresher"}
    /\ UNCHANGED <<callback_raised, os_name, lib_isfile, lib_loads, assistant, event_queue,
                   lib, event_callback, inst, calls, raised, invoked, stream,
                   consumed, stream_ended>>

\* The program as shipped, run by such an application; the refresher's
\* stop() may raise.
NextRefresher ==
    \/ Next
    \/ AttachRefresher
    \/ \E stop_raises \in BOOLEAN : ExitStopReturns(stop_raises)
    \/ ExitFree

SpecRefresher == Init /\ [][NextRefresher]_vars

(***************************************************************************)
(* Properties.                                                             *)
(***************************************************************************)
CommandOps ==
    {"assistant_start", "assistant_set_mic_mute",
     "assistant_start_conversation", "assistant_stop_conversation",
     "assistant_set_access_token"}

\* Every event the callback has pushed: those consumed, then those buffered.
Delivered == consumed \o event_queue.items

Unparsable(data) == data # <<>> /\ ~JsonLoads(data).ok

\* C1: once __exit__ has issued assistant_free on the handle, no command
\* (start, set_mic_mute, start_conversation, stop_conversation,
\* set_access_token) is forwarded to the native library any more.
NoNativeCallAfterFree ==
    \A i \in 1..Len(calls) : \A j \in 1..Len(calls) :
        (calls[i].op = "assistant_free" /\ i < j)
            => calls[j].op \notin CommandOps

\* C2: the native handle is released exactly once: assistant_free is never
\* issued a second time, however often __exit__ is invoked.
HandleFreedAtMostOnce == CountOf(calls, "assistant_free") <= 1

\* C3: a second start() issues no second native start call: assistant_start
\* is issued at most once per handle.
StartIssuedAtMostOnce == CountOf(calls, "assistant_start") <= 1

\* C4: a teardown with a live refresher calls the refresher's stop first
\* and still releases the handle in that same teardown, whether or not
\* stop raised: once the teardown is over (the control thread is no longer
\* inside __exit__) every stop is directly followed by assistant_free.
ExitFreesAfterRefresherStop ==
    assistant \notin {"stopping", "freeing"} =>
        \A i \in 1..Len(calls) :
            calls[i].op = "refresher_stop"
                => (i < Len(calls) /\ calls[i + 1].op = "assistant_free")

\* C5: teardown closes the event queue after releasing the handle, so that
\* the consumer's iteration can end: once assistant_free has been issued
\* the queue is closed.
ExitClosesEventQueue == Freed(calls) => event_queue.closed

\* C6: each invocation of __call__ pushes exactly one event, made from the
\* invocation's type and data, at the tail of the queue, and removes
\* nothing; so the pushes are in the order of the invocations.
OnePushPerInvocation ==
    [][invoked' # invoked =>
         LET n == Len(invoked') IN
         /\ n = Len(invoked) + 1
         /\ event_queue'.items =
               Append(event_queue.items,
                      EventOf(invoked'[n].type, invoked'[n].data))
         /\ consumed' = consumed]_vars

OnePushPerInvocationWitness ==
    /\ Len(invoked) = 2
    /\ invoked[1] # invoked[2]
    /\ Len(event_queue.items) = 2

\* C7: whatever the interleaving of callback pushes and consumer pulls,
\* the consumer receives the events in push order, none lost and none
\* twice, and a push is possible whatever the consumer is doing.
ConsumedInPushOrder ==
    /\ Delivered = [i \in 1..Len(invoked) |->
                       EventOf(invoked[i].type, invoked[i].data)]
    /\ (assistant \in {"constructing", "live", "starting", "stopping",
                       "freeing"}
          /\ Len(invoked) < MaxEvents)
          => ENABLED Callback

ConsumedInPushOrderWitness ==
    /\ Len(consumed) = 2
    /\ consumed[1] # consumed[2]
    /\ Len(invoked) = 2

\* C8: an invocation whose payload does not parse still enqueues exactly
\* one event, with the invocation's type and an empty payload; the
\* callback completes (the event is in the queue) instead of raising.
UnparsablePayloadGivesEmptyEvent ==
    /\ Len(Delivered) = Len(invoked)
    /\ \A i \in 1..Len(invoked) :
          Unparsable(invoked[i].data)
              => (i <= Len(Delivered)
                  /\ Delivered[i] = [type |-> invoked[i].type, args |-> {}])

UnparsablePayloadWitness ==
    \E i \in 1..Len(invoked) :
        /\ invoked[i].data = <<W("not"), W("json")>>
        /\ i <= Len(Delivered)
        /\ Delivered[i].args = {}

\* C9: a token with a character outside ASCII is rejected with an error
\* raised to the caller, no native set_access_token call is issued for it
\* and the Assistant's handle and the rest of its state are unchanged.
NonAsciiTokenRejected ==
    /\ [](\A i \in 1..Len(calls) :
             calls[i].op = "assistant_set_access_token"
                 => /\ \A k \in 1..Len(calls[i].arg) : calls[i].arg[k] < 128
                    /\ calls[i].arg \in Tokens)
    /\ [][\A tok \in Tokens :
             ((\E k \in 1..Len(tok) : tok[k] >= 128) /\ SetCredentials(tok))
                 => /\ raised' = "UnicodeEncodeError"
                    /\ UNCHANGED <<calls, inst, assistant, lib,
                                   event_callback, credentials_refresher,
                                   event_queue, stream>>]_vars

NonAsciiTokenRejectedWitness ==
    /\ raised = "UnicodeEncodeError"
    /\ ~Issued(calls, "assistant_set_access_token")
    /\ HandleLive(calls)

\* C10: when the library cannot be located for this OS/architecture the
\* constructor fails with UnsupportedPlatformError before any native call:
\* no handle, no registered callback, nothing to release.
UnsupportedPlatformFailsBeforeNative ==
    (assistant # "none" /\ (os_name # "Linux" \/ ~lib_isfile))
        => /\ assistant = "failed"
           /\ raised = "UnsupportedPlatformError"
           /\ calls = <<>>
           /\ inst = 0
           /\ event_callback = "None"
           /\ lib = "None"
           /\ credentials_refresher = "None"

UnsupportedPlatformWitness ==
    /\ assistant = "failed"
    /\ os_name = "Linux"
    /\ ~lib_isfile

\* The lifecycle states, read off the calls issued so far.
Created ==
    /\ assistant = "live"
    /\ inst = Handle
    /\ HandleLive(calls)
    /\ ~Issued(calls, "assistant_start")

Started ==
    /\ inst = Handle
    /\ HandleLive(calls)
    /\ Issued(calls, "assistant_start")

\* What a command leaves alone besides the call it forwards.
CommandFrame ==
    /\ raised' = "None"
    /\ assistant' = assistant
    /\ UNCHANGED <<event_queue, inst, lib, event_callback,
                   credentials_refresher, stream, consumed, invoked>>

\* C11: in STARTED each of set_mic_mute, start_conversation and
\* stop_conversation issues exactly one native call of its own kind with
\* the argument unchanged, raises nothing whatever the engine's state
\* (already muted, no conversation active), and leaves the lifecycle state
\* and the event queue as they were.
CommandsArePureForwarding ==
    [][Started =>
         /\ \A m \in BOOLEAN :
               SetMicMute(m) =>
                  /\ calls' = Append(calls,
                        [op |-> "assistant_set_mic_mute", h |-> Handle,
                         arg |-> <<IF m THEN 1 ELSE 0>>, len |-> 0])
                  /\ CommandFrame
         /\ StartConversation =>
               /\ calls' = Append(calls,
                     [op |-> "assistant_start_conversation", h |-> Handle,
                      arg |-> <<>>, len |-> 0])
               /\ CommandFrame
         /\ StopConversation =>
               /\ calls' = Append(calls,
                     [op |-> "assistant_stop_conversation", h |-> Handle,
                      arg |-> <<>>, len |-> 0])
               /\ CommandFrame]_vars

CommandsArePureForwardingWitness ==
    /\ Len(calls) = 4
    /\ calls[2].op = "assistant_start"
    /\ calls[3].op = "assistant_set_mic_mute"
    /\ calls[3].arg = <<1>>
    /\ calls[4] = calls[3]
    /\ raised = "None"

\* C12: start() called in CREATED issues the native start call once, moves
\* the Assistant to STARTED and returns the Assistant's own event queue, so
\* that what the consumer obtains from the returned value is, in order, what
\* the callback pushed, the events pushed while the native start call was
\* still running included.
StartReturnsOwnQueue ==
    /\ [][(Created /\ Start) =>
            /\ calls' = Append(calls,
                  [op |-> "assistant_start", h |-> Handle, arg |-> <<>>,
                   len |-> 0])
            /\ Started'
            /\ raised' = "None"
            /\ UNCHANGED <<event_queue, inst, consumed, invoked,
                           credentials_refresher, stream>>]_vars
    /\ [][(assistant = "starting" /\ assistant' = "live") =>
            /\ stream' = "event_queue"
            /\ UNCHANGED <<calls, raised, event_queue, inst, consumed,
                           invoked, credentials_refresher>>]_vars
    /\ []((assistant = "live" /\ Issued(calls, "assistant_start"))
            => stream = "event_queue")
    /\ [](stream # "None" =>
            /\ stream = "event_queue"
            /\ Len(consumed) <= Len(invoked)
            /\ \A i \in 1..Len(consumed) :
                  consumed[i] = EventOf(invoked[i].type, invoked[i].data))

StartReturnsOwnQueueWitness ==
    /\ Started
    /\ assistant = "live"
    /\ CountOf(calls, "assistant_start") = 1
    /\ stream = "event_queue"
    /\ Len(consumed) = 2
    /\ consumed[1].type # consumed[2].type

\* C13: an ASCII token supplied through the token-update path in CREATED or
\* in STARTED makes the Assistant issue exactly one native set_access_token
\* call carrying the token's bytes and their length, the same in both
\* states; after STOPPED a token update is not valid: once assistant_free
\* has been issued no set_access_token call is issued any more.
AsciiTokenForwardedOnce ==
    /\ [][(Created \/ Started) =>
            \A tok \in Tokens :
               ((\A k \in 1..Len(tok) : tok[k] < 128) /\ SetCredentials(tok))
                  => /\ calls' = Append(calls,
                           [op |-> "assistant_set_access_token", h |-> Handle,
                            arg |-> tok, len |-> Len(tok)])
                     /\ CommandFrame]_vars
    /\ [](\A i \in 1..Len(calls) : \A j \in 1..Len(calls) :
             (calls[i].op = "assistant_free" /\ i < j)
                => calls[j].op # "assistant_set_access_token")

\* C14: start_conversation is a no-op if the Assistant is not started or
\* has been muted: called when start() has not been issued, or when the
\* last effective set_mic_mute muted the microphone, it begins no
\* conversation.
StartConversationNoOpUnlessListening ==
    [][(StartConversation
          /\ (~Engine(calls).started \/ Engine(calls).muted))
        => Engine(calls').conversing = Engine(calls).conversing]_vars

StartConversationNoOpWitness ==
    /\ Len(calls) = 4
    /\ calls[2].op = "assistant_start"
    /\ calls[3].op = "assistant_set_mic_mute"
    /\ calls[3].arg = <<1>>
    /\ calls[4].op = "assistant_start_conversation"
    /\ Engine(calls).muted
    /\ ~Engine(calls).conversing

\* C15: set_mic_mute is a no-op if the Assistant has not yet been started:
\* issued before start() it changes nothing in the engine, so when every
\* set_mic_mute came before start() the started Assistant is not muted and
\* a start_conversation begins a conversation.
SetMicMuteNoOpBeforeStart ==
    /\ [][\A m \in BOOLEAN :
             (SetMicMute(m) /\ ~Engine(calls).started)
                => Engine(calls') = Engine(calls)]_vars
    /\ []((/\ Started
           /\ \A i \in 1..Len(calls) : \A j \in 1..Len(calls) :
                 (calls[i].op = "assistant_set_mic_mute"
                    /\ calls[j].op = "assistant_start") => i < j)
          => /\ ~Engine(calls).muted
             /\ calls[Len(calls)].op = "assistant_start_conversation"
                   => Engine(calls).conversing)

SetMicMuteNoOpBeforeStartWitness ==
    /\ Len(calls) = 4
    /\ calls[2].op = "assistant_set_mic_mute"
    /\ calls[2].arg = <<1>>
    /\ calls[3].op = "assistant_start"
    /\ calls[4].op = "assistant_start_conversation"
    /\ ~Engine(calls).muted
    /\ Engine(calls).conversing

\* C16: once the event queue has been closed a push is rejected as a logic
\* error: the offer raises, the callback invocation adds no event to the
\* buffer and the queue stays closed; the offer raises in no other case;
\* and the consumer is delivered only the events pushed before the close,
\* after which its iteration ends.
ClosedQueueRejectsPush ==
    /\ [][event_queue.closed =>
            /\ event_queue'.closed
            /\ Len(event_queue'.items) <= Len(event_queue.items)
            /\ consumed' \o event_queue'.items = Delivered]_vars
    /\ [][invoked' # invoked =>
            IF event_queue.closed
            THEN /\ callback_raised' = "LogicError"
                 /\ event_queue' = event_queue
            ELSE callback_raised' = "None"]_vars
    /\ [](callback_raised = "LogicError" => event_queue.closed)
    /\ [](stream_ended => (event_queue.closed /\ event_queue.items = <<>>))

ClosedQueueRejectsPushWitness ==
    /\ stream_ended
    /\ Len(consumed) = 1
    /\ Len(invoked) = 2
    /\ consumed[1] = EventOf(invoked[1].type, invoked[1].data)
    /\ callback_raised = "LogicError"

\* C17: whenever the native handle exists the Assistant's event queue
\* exists already, and what the callback delivers between construction and
\* the return of start() is kept in the buffer, which start() hands over
\* untouched to the consumer.
QueueExistsBeforeHandle ==
    /\ []((Issued(calls, "assistant_new") \/ inst # 0) => event_queue.made)
    /\ [](Created =>
            /\ consumed = <<>>
            /\ event_queue.items =
                  [i \in 1..Len(invoked) |->
                      EventOf(invoked[i].type, invoked[i].data)])
    /\ []((Started /\ stream = "None") =>
            /\ consumed = <<>>
            /\ event_queue.items =
                  [i \in 1..Len(invoked) |->
                      EventOf(invoked[i].type, invoked[i].data)])
    /\ [][(Start \/ StartReturns) => event_queue' = event_queue]_vars
    /\ [][StartReturns => stream' = "event_queue"]_vars

QueueExistsBeforeHandleWitness ==
    /\ Started
    /\ assistant = "starting"
    /\ event_queue.made
    /\ Len(invoked) = 2
    /\ Len(event_queue.items) = 2
    /\ invoked[2].data = <<>>
    /\ stream = "None"

\* C18: teardown clears the refresher reference after stopping it, so
\* however often teardown is repeated the refresher's stop is called at most
\* once, and once a teardown has completed, the handle released, the
\* reference is absent.
RefresherStoppedAtMostOnce ==
    /\ CountOf(calls, "refresher_stop") <= 1
    /\ Freed(calls) => credentials_refresher = "None"

\* C19: as shipped, with the refresher lines of the constructor commented
\* out, the refresher reference is absent in every reachable state and no
\* sequence of construction, start, set_mic_mute, start_conversation,
\* stop_conversation and teardown issues a native set_access_token call or
\* touches a refresher.
ShippedNeverForwardsCredentials ==
    /\ credentials_refresher = "None"
    /\ \A i \in 1..Len(calls) :
          calls[i].op \notin {"assistant_set_access_token", "refresher_stop"}

ShippedNeverForwardsCredentialsWitness ==
    /\ Len(calls) = 4
    /\ calls[1].op = "assistant_new"
    /\ calls[2].op = "assistant_start"
    /\ calls[3].op = "assistant_start_conversation"
    /\ calls[4].op = "assistant_free"

====
